---- MODULE Spec2Model ----
\* Model of the LangGraph agent loop of app/core/graph.py (agent_node,
\* tool_executor_node, should_continue, create_graph) as driven by the chat
\* handler of app/streamlit_app.py, with the MemorySaver checkpoint of every
\* thread as the state.
EXTENDS Integers, Sequences, FiniteSets, TLC

VARIABLES tools, startup, state, pc, turns, free, llm_calls, tool_rounds, last_step,
          requested, next_id, ui, probe, build

\* tools       the tool list of graph.py, built at import
\* startup     what the import of graph.py found (database, vector stores) and
\*             how it ended
\* state       thread id -> the AgentState kept by the MemorySaver checkpointer
\* pc          thread id -> where the thread's run is: "idle" before the first
\*             turn, "agent" / "tools" the node to run next, "done" after END,
\*             "error" after an exception left the run
\* turns       thread id -> turns the thread may still submit
\* free        thread id -> tool requests of the thread that the model and the
\*             tools answer freely (any name, any payload, any outcome)
\* llm_calls   thread id -> agent_chain.invoke calls of the current turn
\* tool_rounds thread id -> responses with tool calls seen in the current turn
\* last_step   thread id -> what the last step of the thread did
\* requested   thread id -> the tool calls the model has emitted so far
\* next_id     thread id -> tool calls the model has emitted so far (their count)
\* ui          thread id -> the browser session of the thread: st.session_state
\*             and the locals of the chat handler
\* probe       one tool request taken through the body of the tool loop
\* build       one call of build_vector_store of the index build utility
vars == <<tools, startup, state, pc, turns, free, llm_calls, tool_rounds, last_step,
          requested, next_id, ui, probe, build>>

-----------------------------------------------------------------------------
\* Bounds of the exploration.

\* Turns submitted on one thread.
MaxTurns == 2
\* Tool requests in one response of the language model.
MaxBatch == 2
\* Tool requests of one thread that the language model and the tools answer
\* freely (any name, any payload, any tool outcome); later requests of the
\* thread are well-formed requests for a registered tool that succeeds.
MaxRequests == 2
\* The same two bounds where behaviours are checked under fairness.
FairTurns == 1
FairRequests == 1
\* Freely answered tool requests of each thread where two sessions run at once.
ConcRequests == 1
\* Keys of an argument mapping, where single requests are checked.
MaxKeys == 2
\* Characters by which a tool's output exceeds the truncation limit.
MaxExcess == 2
\* Documents handed to build_vector_store.
MaxDocs == 5

\* Thread identifiers (st.session_state.thread_id of two browser sessions).
Threads == {"t1", "t2"}

-----------------------------------------------------------------------------
\* Values.

\* seq[-1]
Last(seq) == seq[Len(seq)]

\* tool_call.get("name") of a request that carries no name.
NoName == "<None>"

\* A value inside an argument mapping: a Python str or a Python int.
StrVal(s) == [t |-> "str", v |-> s]
IntVal(s) == [t |-> "int", v |-> s]

\* dict.get(key) on a mapping kept as a sequence of <<key, value>> pairs in
\* insertion order gives None when the key is absent.
PyNone == [t |-> "none", v |-> ""]

\* Python truthiness of such a value (None, "" and 0 are falsy).
Truthy(x) ==
    /\ x.t # "none"
    /\ IF x.t = "str" THEN x.v # "" ELSE x.v # "0"

RECURSIVE GetFrom(_, _, _)
GetFrom(items, key, i) ==
    IF i > Len(items) THEN PyNone
    ELSE IF items[i][1] = key THEN items[i][2]
    ELSE GetFrom(items, key, i + 1)

Get(items, key) == GetFrom(items, key, 1)

\* a or b in Python: a when a is truthy, else b.
PyOr(a, b) == IF Truthy(a) THEN a ELSE b

\* The first str value of the mapping in iteration order (graph.py 274-277),
\* None when there is none.
RECURSIVE FirstStr(_, _)
FirstStr(items, i) ==
    IF i > Len(items) THEN PyNone
    ELSE IF items[i][2].t = "str" THEN items[i][2]
    ELSE FirstStr(items, i + 1)

\* str(tool_args): the printed form of the whole payload.
Stringified(args) == [t |-> "str", repr |-> args]

\* Argument payloads: a mapping or a bare string.
DictArgs(items) == [kind |-> "dict", items |-> items]
StrArgs(s) == [kind |-> "str", s |-> s]

\* query_string as computed by tool_executor_node from tool_args.
QueryString(args) ==
    IF args.kind = "dict" THEN
        LET q1 == PyOr(PyOr(PyOr(Get(args.items, "query"), Get(args.items, "arg1")),
                            Get(args.items, "input")),
                       Get(args.items, "question"))
            q2 == IF ~Truthy(q1) THEN FirstStr(args.items, 1) ELSE q1
        IN  IF ~Truthy(q2) THEN Stringified(args) ELSE q2
    ELSE IF args.kind = "str" THEN StrVal(args.s)
    ELSE Stringified(args)

\* query_string[:100] (graph.py 286) raises TypeError unless the value can be
\* sliced; of the values modelled, only a str can.
Sliceable(q) == q.t = "str"

-----------------------------------------------------------------------------
\* Messages.

HumanMessage(c) == [type |-> "human", content |-> c]
AIMessage(c, tcs) == [type |-> "ai", content |-> c, tool_calls |-> tcs]
ToolMessage(id, c, n) == [type |-> "tool", tool_call_id |-> id, content |-> c, name |-> n]

\* The content of the forced final answer (graph.py 152), a Python str.
APOLOGY == StrVal("I apologize, but I'm having difficulty processing your request.")

\* Message content that is a list of content blocks; a block is a dict, with
\* or without the key 'text' (text is <<>> without it), or a str.
ListVal(blocks) == [t |-> "list", blocks |-> blocks]
DictBlock(type, text) == [t |-> "dict", type |-> type, text |-> text]

\* text_parts of extract_text_content: the text of every dict block that has
\* the key 'text' and every str block, in order.
RECURSIVE text_parts(_, _)
text_parts(blocks, i) ==
    IF i > Len(blocks) THEN <<>>
    ELSE LET block == blocks[i]
             part == IF block.t = "dict" THEN block.text
                     ELSE IF block.t = "str" THEN <<block.v>>
                     ELSE <<>>
         IN  part \o text_parts(blocks, i + 1)

\* '\n'.join(parts)
RECURSIVE join(_, _)
join(parts, i) ==
    IF i > Len(parts) THEN ""
    ELSE IF i = Len(parts) THEN parts[i]
    ELSE parts[i] \o "\n" \o join(parts, i + 1)

\* extract_text_content (streamlit_app.py 18-41): the text of a message's
\* content as a Python str.
extract_text_content(message_content) ==
    IF message_content.t = "str" THEN message_content.v
    ELSE IF message_content.t = "list"
         THEN LET parts == text_parts(message_content.blocks, 1)
              IN  IF parts # <<>> THEN join(parts, 1) ELSE ""
    ELSE ""

\* Maximum number of tool call iterations (graph.py 146).
MAX_ITERATIONS == 5

\* Longest tool output recorded in full (graph.py 293-294).
TRUNCATE_AT == 1000

TRUNCATED == <<"... (truncated)">>

\* The output of exactly TRUNCATE_AT characters cut as well.
response_text_eager(out) ==
    IF Len(out) >= TRUNCATE_AT THEN SubSeq(out, 1, TRUNCATE_AT) \o TRUNCATED ELSE out

\* response_text: the tool's output cut to TRUNCATE_AT characters plus the marker.
response_text(out) ==
    IF Len(out) > TRUNCATE_AT THEN SubSeq(out, 1, TRUNCATE_AT) \o TRUNCATED ELSE out

-----------------------------------------------------------------------------
\* The tool registry built when graph.py is imported.

\* What the import finds: the database reachable or not, each of the two
\* vector stores on disk and loadable or not.
Environments == [db : BOOLEAN, feedback_db : BOOLEAN, product_db : BOOLEAN]

\* toolkit.get_tools(): the SQL tools, or none when the database is unreachable.
sql_tools(env) ==
    IF env.db THEN <<"sql_db_list_tables", "sql_db_schema", "sql_db_query">> ELSE <<>>

\* create_feedback_rag_tool() raises on every call: FileNotFoundError without
\* the store (feedback_tool.py 18-19), NameError on the undefined name
\* vectorstore with it (feedback_tool.py 57).
create_feedback_rag_tool(env) ==
    IF ~env.feedback_db THEN [raised |-> "FileNotFoundError"] ELSE [raised |-> "NameError"]

\* create_product_rag_tool() raises without its store and returns the tool
\* with it.
create_product_rag_tool(env) ==
    IF ~env.product_db THEN [raised |-> "FileNotFoundError"]
    ELSE [tool |-> "product_details_search"]

\* One try block builds both RAG tools, the feedback tool first: an exception
\* of either leaves rag_tools empty (graph.py 38-44).
rag_tools(env) ==
    LET feedback_tool == create_feedback_rag_tool(env)
        product_tool == create_product_rag_tool(env)
    IN  IF "raised" \in DOMAIN feedback_tool THEN <<>>
        ELSE IF "raised" \in DOMAIN product_tool THEN <<>>
        ELSE <<feedback_tool.tool, product_tool.tool>>

full_tool_list(env) == sql_tools(env) \o rag_tools(env)

\* The import of graph.py: the tool list, and RuntimeError when it is empty
\* (graph.py 47-50).
import_graph(env) ==
    LET tl == full_tool_list(env)
    IN  [tools |-> tl, error |-> IF tl = <<>> THEN "RuntimeError" ELSE "none"]

\* tool_map.keys()
tool_map == {tools[i] : i \in 1..Len(tools)}

-----------------------------------------------------------------------------
\* AgentState and its reducers (graph.py 54-60).

EmptyState ==
    [messages |-> <<>>, tool_calls |-> <<>>, tool_responses |-> <<>>, iteration_count |-> 0]

\* The message channel declared without its reducer.
AppendingResultsOnly == {"tool_responses"}

\* The channels declared with the reducer lambda x, y: x + y.
Appending == {"messages", "tool_responses"}

\* A node's returned mapping applied to the state: appended on the channels
\* with a reducer, overwritten on the others, absent keys left alone.
Merge(s, u) ==
    [k \in DOMAIN s |->
        IF k \in DOMAIN u
        THEN IF k \in Appending THEN s[k] \o u[k] ELSE u[k]
        ELSE s[k]]

-----------------------------------------------------------------------------
\* agent_node (graph.py 137-233).

\* Off by one: the guard written with > for >=.
GuardFiresLate(s) == s.iteration_count > MAX_ITERATIONS

\* if iteration_count >= MAX_ITERATIONS
GuardFires(s) == s.iteration_count >= MAX_ITERATIONS

\* The node that never takes the state for holding Tool Results.
has_tool_responses_never(s) == FALSE

\* has_tool_responses
has_tool_responses(s) == Len(s.tool_responses) > 0

\* chat_history = messages + tool_responses: the sequence handed to the model.
chat_history(s) == s.messages \o s.tool_responses

\* The tools bound in both modes.
agent_chain_always_bound(s) == "llm.bind_tools(tools)"

\* Which chain is invoked: llm.bind_tools(tools) or the base llm.
agent_chain(s) == IF has_tool_responses(s) THEN "llm" ELSE "llm.bind_tools(tools)"

\* The guard ending the loop without appending the apology.
ForcedAnswerSilent(s) == [messages |-> <<>>, tool_calls |-> <<>>]

\* The mapping returned when the guard fires.
ForcedAnswer(s) == [messages |-> <<AIMessage(APOLOGY, <<>>)>>, tool_calls |-> <<>>]

\* The tool calls returned without counting the iteration.
ToolCallReturnUncounted(s, response_message) ==
    [tool_calls |-> response_message.tool_calls, iteration_count |-> s.iteration_count]

\* The mapping returned when the response carries tool calls.
ToolCallReturn(s, response_message) ==
    [tool_calls |-> response_message.tool_calls,
     iteration_count |-> s.iteration_count + 1]

\* The final answer counted as an iteration.
FinalReturnCounted(s, response_message) ==
    [messages |-> <<response_message>>, tool_calls |-> <<>>,
     iteration_count |-> s.iteration_count + 1]

\* The mapping returned when the response is a final answer.
FinalReturn(s, response_message) ==
    [messages |-> <<response_message>>, tool_calls |-> <<>>]

agent_node(s, response_message) ==
    IF GuardFires(s) THEN ForcedAnswer(s)
    ELSE IF response_message.tool_calls # <<>>
         THEN ToolCallReturn(s, response_message)
         ELSE FinalReturn(s, response_message)

-----------------------------------------------------------------------------
\* tool_executor_node (graph.py 239-326).

Returned(tool_call, out) ==
    ToolMessage(tool_call.id,
                [kind |-> "returned", tool |-> tool_call.name, detail |-> response_text(out)],
                tool_call.name)

\* The error result built with the default identifier instead of the request's.
ErrorResultLosesId(tool_call, exc) ==
    ToolMessage(<<tool_call.id[1], 0>>,
                [kind |-> "Error executing tool", tool |-> tool_call.name, detail |-> <<exc>>],
                tool_call.name)

ErrorResult(tool_call, exc) ==
    ToolMessage(tool_call.id,
                [kind |-> "Error executing tool", tool |-> tool_call.name, detail |-> <<exc>>],
                tool_call.name)

\* The error result that does not list the available tools.
NotFoundUnlisted(tool_call) ==
    ToolMessage(tool_call.id,
                [kind |-> "not found", tool |-> tool_call.name, detail |-> <<>>],
                tool_call.name)

\* Tool '<name>' not found. Available tools: <list(tool_map.keys())>
NotFound(tool_call) ==
    ToolMessage(tool_call.id,
                [kind |-> "not found", tool |-> tool_call.name, detail |-> tools],
                tool_call.name)

\* try: tool_to_call.invoke(query_string) ... except Exception as e: ...
\* outcome is what the tool does when invoked: its output, or the exception.
Invoke(tool_call, outcome) ==
    IF outcome.ok THEN Returned(tool_call, outcome.out)
    ELSE ErrorResult(tool_call, outcome.exc)

\* The for loop over state["tool_calls"], from request i on, new_tool_responses
\* being acc. outs[i] is the outcome of the i-th tool if it is invoked.
RECURSIVE ExecuteFrom(_, _, _, _)
ExecuteFrom(calls, outs, i, acc) ==
    IF i > Len(calls) THEN [raised |-> FALSE, at |-> i, new_tool_responses |-> acc]
    ELSE IF calls[i].name = NoName THEN ExecuteFrom(calls, outs, i + 1, acc)
    ELSE IF calls[i].name \in tool_map
         THEN IF ~Sliceable(QueryString(calls[i].args))
              THEN [raised |-> TRUE, at |-> i, new_tool_responses |-> acc]
              ELSE ExecuteFrom(calls, outs, i + 1, Append(acc, Invoke(calls[i], outs[i])))
         ELSE ExecuteFrom(calls, outs, i + 1, Append(acc, NotFound(calls[i])))

\* The loop without the try/except around the invocation: the tool's exception
\* leaves the node.
RECURSIVE ExecuteFromUnguarded(_, _, _, _)
ExecuteFromUnguarded(calls, outs, i, acc) ==
    IF i > Len(calls) THEN [raised |-> FALSE, at |-> i, new_tool_responses |-> acc]
    ELSE IF calls[i].name = NoName THEN ExecuteFromUnguarded(calls, outs, i + 1, acc)
    ELSE IF calls[i].name \in tool_map
         THEN IF ~Sliceable(QueryString(calls[i].args)) \/ ~outs[i].ok
              THEN [raised |-> TRUE, at |-> i, new_tool_responses |-> acc]
              ELSE ExecuteFromUnguarded(calls, outs, i + 1,
                                        Append(acc, Invoke(calls[i], outs[i])))
         ELSE ExecuteFromUnguarded(calls, outs, i + 1, Append(acc, NotFound(calls[i])))

tool_executor_node_unguarded(s, outs) ==
    LET r == ExecuteFromUnguarded(s.tool_calls, outs, 1, <<>>)
    IN  IF r.raised THEN [exception |-> "Exception", at |-> r.at]
        ELSE [tool_responses |-> r.new_tool_responses, tool_calls |-> <<>>]

\* The node putting its results into the message sequence as well.
tool_executor_node_into_messages(s, outs) ==
    LET r == ExecuteFrom(s.tool_calls, outs, 1, <<>>)
    IN  IF r.raised THEN [exception |-> "TypeError", at |-> r.at]
        ELSE [messages |-> r.new_tool_responses,
              tool_responses |-> r.new_tool_responses, tool_calls |-> <<>>]

\* The node returning its results without clearing the pending requests.
tool_executor_node_keeps_pending(s, outs) ==
    LET r == ExecuteFrom(s.tool_calls, outs, 1, <<>>)
    IN  IF r.raised THEN [exception |-> "TypeError", at |-> r.at]
        ELSE [tool_responses |-> r.new_tool_responses]

\* The node's result: the returned mapping, or the TypeError that leaves it.
tool_executor_node(s, outs) ==
    LET r == ExecuteFrom(s.tool_calls, outs, 1, <<>>)
    IN  IF r.raised THEN [exception |-> "TypeError", at |-> r.at]
        ELSE [tool_responses |-> r.new_tool_responses, tool_calls |-> <<>>]

-----------------------------------------------------------------------------
\* The graph (graph.py 330-371).

\* The branches of the conditional edge swapped.
should_continue_swapped(s) == IF s.tool_calls # <<>> THEN "end" ELSE "continue"

should_continue(s) == IF s.tool_calls # <<>> THEN "continue" ELSE "end"

\* add_conditional_edges("agent", should_continue, {...})
AfterAgent(s) == IF should_continue(s) = "continue" THEN "tools" ELSE "done"

\* add_edge("tools", "agent")
AfterTools == "agent"

-----------------------------------------------------------------------------
\* The environment: the user, the language model and the tools.

Prompts == {"How many customers are there?"}

\* Content of a final answer: a str, or the block list Gemini may return.
FinalTexts ==
    {StrVal("There are 59 customers."), StrVal(""),
     ListVal(<<DictBlock("text", <<"There are">>), StrVal("59 customers.")>>)}

\* Content of a response that carries tool calls.
IncidentalTexts == {StrVal(""), StrVal("Let me check.")}

ToolNamePool == {"sql_db_query", "web_search", NoName}

GoodArgs == DictArgs(<< <<"query", StrVal("SELECT 1")>> >>)
BadArgs == DictArgs(<< <<"query", IntVal("5")>> >>)

ArgsPool == {GoodArgs, BadArgs}

Shapes == [name : ToolNamePool, args : ArgsPool]

PlainShape == [name |-> "sql_db_query", args |-> GoodArgs]

\* A request that carries no name.
SkippedShape == [name |-> NoName, args |-> GoodArgs]

ShapeSeqs == UNION {[1..n -> Shapes] : n \in 1..MaxBatch}

\* The batches the model may ask for on thread t.
AllowedShapeSeqs(t) ==
    {sh \in ShapeSeqs : next_id[t] + Len(sh) <= free[t]}
    \cup {<<PlainShape>>, <<SkippedShape>>}

\* Every tool call gets an identifier of its own from the model.
WithIds(t, sh) ==
    [i \in 1..Len(sh) |->
        [name |-> sh[i].name, args |-> sh[i].args, id |-> <<t, next_id[t] + i>>]]

\* Every session running under one and the same thread identifier.
thread_id_shared(t) == "t1"

\* The thread identifier of a browser session: a uuid4 of its own, kept in
\* st.session_state and passed as config (streamlit_app.py 67-68, 89).
thread_id(t) == t

\* What agent_chain.invoke may return on thread t: text, or, from the model
\* that was given the tools, tool calls. The base llm is sent no tool
\* declarations, so its response carries no tool calls (graph.py 168-169, 188,
\* 222).
Responses(t) ==
    {AIMessage(c, <<>>) : c \in FinalTexts}
    \cup IF agent_chain(state[thread_id(t)]) = "llm.bind_tools(tools)"
         THEN {AIMessage(c, WithIds(t, sh)) : c \in IncidentalTexts, sh \in AllowedShapeSeqs(t)}
         ELSE {}

ToolOutcomes ==
    {[ok |-> TRUE, out |-> <<"5", "9">>], [ok |-> FALSE, exc |-> "OperationalError"]}

\* What the tools of one batch do when invoked.
OutcomeChoices(calls) ==
    {outs \in [1..Len(calls) -> ToolOutcomes] :
        \A i \in 1..Len(calls) : calls[i].id[2] > free[calls[i].id[1]] => outs[i].ok}

\* last_step: the node that ran, the chain it invoked, how it ended, the
\* model's response, the outcomes of the tools and the request at which an
\* exception left the tool loop (0 when none did).
NoStep ==
    [node |-> "none", chain |-> "none", outcome |-> "none", response |-> <<>>,
     outs |-> <<>>, at |-> 0]

-----------------------------------------------------------------------------
\* The browser session (streamlit_app.py 65-162).

\* st.session_state.messages, the locals final_answer and tool_calls_made,
\* the two containers and the st.error box of a session with no turn yet.
NoSession ==
    [messages |-> <<>>, final_answer |-> "", tool_calls_made |-> <<>>,
     thinking |-> "", response |-> "", error |-> ""]

\* Lines 78-98: the prompt goes to the session history and the locals of the
\* turn are initialised.
new_turn(u, prompt) ==
    [messages |-> Append(u.messages, [role |-> "user", content |-> prompt]),
     final_answer |-> "", tool_calls_made |-> <<>>,
     thinking |-> "Agent is thinking...", response |-> "", error |-> ""]

\* Lines 108-136: the body of the stream loop for one chunk (the values of the
\* state after a step).
on_chunk(u, chunk) ==
    LET last_message == Last(chunk.messages)
    IN  IF last_message.type = "ai" /\ last_message.tool_calls # <<>>
        THEN LET tool_names == [i \in 1..Len(last_message.tool_calls) |->
                                    last_message.tool_calls[i].name]
             IN  [u EXCEPT !.tool_calls_made = @ \o tool_names, !.thinking = "Calling"]
        ELSE IF last_message.type = "tool"
        THEN [u EXCEPT !.thinking = "Tools finished. Generating answer..."]
        ELSE IF last_message.type = "ai"
        THEN LET content == extract_text_content(last_message.content)
             IN  IF content # "" THEN [u EXCEPT !.final_answer = content] ELSE u
        ELSE u

NO_RESPONSE == "No response received from agent."

\* Lines 138-154, after the stream is exhausted: the final answer is shown
\* and recorded, or the notice that there is none (the notice lists the tools
\* called when there are any).
on_stream_end(u) ==
    IF u.final_answer # ""
    THEN [u EXCEPT !.response = u.final_answer, !.thinking = "",
                   !.messages = Append(@, [role |-> "assistant", content |-> u.final_answer])]
    ELSE LET error_msg == IF u.tool_calls_made # <<>>
                          THEN NO_RESPONSE \o " (Tools called)" ELSE NO_RESPONSE
         IN  [u EXCEPT !.thinking = error_msg,
                       !.messages = Append(@, [role |-> "assistant", content |-> error_msg])]

\* The handler that records an answer for the failed turn.
on_exception_answers(u, e) ==
    [u EXCEPT !.error = "An error occurred: " \o e, !.thinking = "",
              !.messages = Append(@, [role |-> "assistant", content |-> e])]

\* Lines 156-162: an exception out of the stream is shown with st.error.
on_exception(u, e) == [u EXCEPT !.error = "An error occurred: " \o e, !.thinking = ""]

\* What the session shows after a step that left the run at pc.
after_chunk(u, chunk, at) ==
    IF at = "done" THEN on_stream_end(on_chunk(u, chunk)) ELSE on_chunk(u, chunk)

-----------------------------------------------------------------------------
\* The chat handler (streamlit_app.py 76-106).

\* The input that leaves the counter of the thread as it is.
graph_input_keeps_count(prompt) == [messages |-> <<HumanMessage(StrVal(prompt))>>]

\* graph_input (streamlit_app.py 92-95).
graph_input(prompt) == [messages |-> <<HumanMessage(StrVal(prompt))>>, iteration_count |-> 0]

\* runnable_graph.stream(graph_input, config): the input is written to the
\* thread's checkpoint and the run starts at the entry point "agent".
SubmitTurn(t) ==
    /\ startup.error = "none"
    /\ pc[t] \in {"idle", "done", "error"}
    /\ turns[t] > 0
    /\ \E prompt \in Prompts :
          /\ state' = [state EXCEPT ![thread_id(t)] = Merge(@, graph_input(prompt))]
          /\ ui' = [ui EXCEPT ![t] = on_chunk(new_turn(@, prompt), state'[thread_id(t)])]
    /\ pc' = [pc EXCEPT ![t] = "agent"]
    /\ turns' = [turns EXCEPT ![t] = @ - 1]
    /\ llm_calls' = [llm_calls EXCEPT ![t] = 0]
    /\ tool_rounds' = [tool_rounds EXCEPT ![t] = 0]
    /\ last_step' = [last_step EXCEPT ![t] = [NoStep EXCEPT !.node = "submit"]]
    /\ UNCHANGED <<tools, startup, free, requested, next_id, probe, build>>

\* One run of the node "agent" and of the conditional edge after it.
RunAgent(t) ==
    /\ pc[t] = "agent"
    /\ IF GuardFires(state[thread_id(t)])
       THEN /\ state' = [state EXCEPT ![thread_id(t)] =
                    Merge(@, agent_node(@, AIMessage(StrVal(""), <<>>)))]
            /\ pc' = [pc EXCEPT ![t] = AfterAgent(state'[thread_id(t)])]
            /\ ui' = [ui EXCEPT ![t] = after_chunk(@, state'[thread_id(t)], pc'[t])]
            /\ last_step' = [last_step EXCEPT ![t] =
                    [NoStep EXCEPT !.node = "agent", !.outcome = "cutoff"]]
            /\ UNCHANGED <<llm_calls, tool_rounds, requested, next_id>>
       ELSE \/ \E r \in Responses(t) :
                 /\ state' = [state EXCEPT ![thread_id(t)] = Merge(@, agent_node(@, r))]
                 /\ pc' = [pc EXCEPT ![t] = AfterAgent(state'[thread_id(t)])]
                 /\ ui' = [ui EXCEPT ![t] = after_chunk(@, state'[thread_id(t)], pc'[t])]
                 /\ llm_calls' = [llm_calls EXCEPT ![t] = @ + 1]
                 /\ tool_rounds' = [tool_rounds EXCEPT ![t] =
                         IF r.tool_calls # <<>> THEN @ + 1 ELSE @]
                 /\ last_step' = [last_step EXCEPT ![t] =
                         [node |-> "agent", chain |-> agent_chain(state[thread_id(t)]),
                          outcome |-> IF r.tool_calls # <<>> THEN "tool_request" ELSE "final",
                          response |-> <<r>>, outs |-> <<>>, at |-> 0]]
                 /\ requested' = [requested EXCEPT ![t] =
                         @ \cup {[id |-> r.tool_calls[i].id, name |-> r.tool_calls[i].name] :
                                    i \in 1..Len(r.tool_calls)}]
                 /\ next_id' = [next_id EXCEPT ![t] = @ + Len(r.tool_calls)]
            \/ \* agent_chain.invoke raises: the exception leaves the run
               /\ pc' = [pc EXCEPT ![t] = "error"]
               /\ ui' = [ui EXCEPT ![t] = on_exception(@, "ResourceExhausted")]
               /\ llm_calls' = [llm_calls EXCEPT ![t] = @ + 1]
               /\ last_step' = [last_step EXCEPT ![t] =
                       [NoStep EXCEPT !.node = "agent",
                                      !.chain = agent_chain(state[thread_id(t)]),
                                      !.outcome = "llm_error"]]
               /\ UNCHANGED <<state, tool_rounds, requested, next_id>>
    /\ UNCHANGED <<tools, startup, turns, free, probe, build>>

\* One run of the node "tools" and of the edge after it.
RunTools(t) ==
    /\ pc[t] = "tools"
    /\ \E outs \in OutcomeChoices(state[thread_id(t)].tool_calls) :
          LET u == tool_executor_node(state[thread_id(t)], outs)
          IN  IF "exception" \in DOMAIN u
              THEN /\ pc' = [pc EXCEPT ![t] = "error"]
                   /\ ui' = [ui EXCEPT ![t] = on_exception(@, u.exception)]
                   /\ last_step' = [last_step EXCEPT ![t] =
                           [NoStep EXCEPT !.node = "tools", !.outcome = "raised",
                                          !.outs = outs, !.at = u.at]]
                   /\ UNCHANGED state
              ELSE /\ state' = [state EXCEPT ![thread_id(t)] = Merge(@, u)]
                   /\ pc' = [pc EXCEPT ![t] = AfterTools]
                   /\ ui' = [ui EXCEPT ![t] = after_chunk(@, state'[thread_id(t)], pc'[t])]
                   /\ last_step' = [last_step EXCEPT ![t] =
                           [NoStep EXCEPT !.node = "tools", !.outcome = "completed", !.outs = outs]]
    /\ UNCHANGED <<tools, startup, turns, free, llm_calls, tool_rounds, requested, next_id, probe, build>>

\* No request is in the probe.
NoProbe == [stage |-> "none"]

\* build_vector_store is not running.
NoBuild == [stage |-> "none"]

\* After import: the tool list is built, or the import fails with
\* RuntimeError (graph.py 49-50) and the page stops (streamlit_app.py 13-15).
InitThreads(quota, budget) ==
    /\ \E env \in Environments :
          /\ tools = import_graph(env).tools
          /\ startup = [env |-> env, error |-> import_graph(env).error]
    /\ state = [t \in Threads |-> EmptyState]
    /\ pc = [t \in Threads |-> "idle"]
    /\ turns = quota
    /\ free = budget
    /\ llm_calls = [t \in Threads |-> 0]
    /\ tool_rounds = [t \in Threads |-> 0]
    /\ last_step = [t \in Threads |-> NoStep]
    /\ requested = [t \in Threads |-> {}]
    /\ next_id = [t \in Threads |-> 0]
    /\ ui = [t \in Threads |-> NoSession]

\* One browser session.
OneSession(n) == [t \in Threads |-> IF t = "t1" THEN n ELSE 0]

Init == InitThreads(OneSession(MaxTurns), OneSession(MaxRequests)) /\ probe = NoProbe /\ build = NoBuild

Next == \E t \in Threads : SubmitTurn(t) \/ RunAgent(t) \/ RunTools(t)

Spec == Init /\ [][Next]_vars

\* A node that can run does run: LangGraph's loop executes the next node
\* until END or an exception.
FairInit ==
    InitThreads(OneSession(FairTurns), OneSession(FairRequests)) /\ probe = NoProbe /\ build = NoBuild

FairSpec ==
    FairInit /\ [][Next]_vars /\ \A t \in Threads : WF_vars(RunAgent(t)) /\ WF_vars(RunTools(t))

\* Two browser sessions at once, a turn in each, their steps interleaved in
\* every order (the sessions share the module-level runnable_graph and its
\* MemorySaver).
EachSession(n) == [t \in Threads |-> n]

ConcInit == InitThreads(EachSession(1), EachSession(ConcRequests)) /\ probe = NoProbe /\ build = NoBuild

ConcSpec == ConcInit /\ [][Next]_vars

-----------------------------------------------------------------------------
\* One request for a registered tool taken through the body of the loop of
\* tool_executor_node (graph.py 265-313), for every payload and every output.

Keys == {"query", "arg1", "input", "question", "other"}

Values == {StrVal("x"), StrVal("y"), StrVal(""), IntVal("1"), IntVal("0"), PyNone}

\* Mappings of at most MaxKeys keys, in insertion order.
Mappings ==
    UNION {{m \in [1..n -> Keys \X Values] : \A i, j \in 1..n : m[i][1] = m[j][1] => i = j} :
              n \in 0..MaxKeys}

\* tool_args that is neither a dict nor a str.
OtherArgs == [kind |-> "NoneType"]

Payloads ==
    {DictArgs(m) : m \in Mappings} \cup {StrArgs("raw string"), StrArgs(""), OtherArgs}

\* str(response) of n characters.
Output(n) == [i \in 1..n |-> <<"a", "b", "c">>[(i % 3) + 1]]

OutputLengths ==
    {0, 1, TRUNCATE_AT - 1, TRUNCATE_AT} \cup (TRUNCATE_AT + 1)..(TRUNCATE_AT + MaxExcess)

ProbeOutcomes ==
    {[ok |-> TRUE, out |-> Output(n)] : n \in OutputLengths}
    \cup {[ok |-> FALSE, exc |-> "OperationalError"]}

\* Lines 266-286: the payload is normalized and the query is sliced for the
\* log line, which raises TypeError when it cannot be.
Normalize ==
    /\ probe.stage = "request"
    /\ probe' = [stage |-> IF Sliceable(QueryString(probe.tool_call.args))
                           THEN "normalized" ELSE "TypeError",
                 tool_call |-> probe.tool_call,
                 outcome |-> probe.outcome,
                 query_string |-> QueryString(probe.tool_call.args)]
    /\ UNCHANGED <<tools, startup, state, pc, turns, free, llm_calls, tool_rounds,
                   last_step, requested, next_id, ui, build>>

\* Lines 287-313: the tool is invoked and its result recorded.
InvokeTool ==
    /\ probe.stage = "normalized"
    /\ probe' = [stage |-> "recorded",
                 tool_call |-> probe.tool_call,
                 outcome |-> probe.outcome,
                 query_string |-> probe.query_string,
                 result |-> Invoke(probe.tool_call, probe.outcome)]
    /\ UNCHANGED <<tools, startup, state, pc, turns, free, llm_calls, tool_rounds,
                   last_step, requested, next_id, ui, build>>

\* No browser session.
NoSessions == [t \in Threads |-> 0]

ProbeInit ==
    /\ InitThreads(NoSessions, NoSessions)
    /\ startup.env = [db |-> TRUE, feedback_db |-> TRUE, product_db |-> TRUE]
    /\ build = NoBuild
    /\ \E args \in Payloads, outcome \in ProbeOutcomes :
          probe = [stage |-> "request",
                   tool_call |-> [name |-> tools[1], args |-> args, id |-> <<"t1", 1>>],
                   outcome |-> outcome]

ProbeNext == Normalize \/ InvokeTool

ProbeSpec == ProbeInit /\ [][ProbeNext]_vars

-----------------------------------------------------------------------------
\* build_vector_store (vector_builder.py 37-72), called with a list of
\* documents 1..Len: db is the set of documents in the FAISS store in memory,
\* doc the document the loop is at, slept the time.sleep calls so far, saved
\* the documents of the store written to disk (none before save_local).

NotSaved == [written |-> FALSE, docs |-> {}]

Building(stage, documents, doc, db, slept, saved) ==
    [stage |-> stage, documents |-> documents, doc |-> doc, db |-> db, slept |-> slept,
     saved |-> saved]

\* Lines 43-52: no documents, nothing is built; else the store is made from
\* the first document, and an exception goes to the handler of line 71.
from_documents ==
    /\ build.stage = "called"
    /\ IF build.documents = 0
       THEN build' = [build EXCEPT !.stage = "returned"]
       ELSE \E ok \in BOOLEAN :
               build' = IF ok THEN [build EXCEPT !.stage = "loop", !.db = {1}, !.doc = 2]
                        ELSE [build EXCEPT !.stage = "critical"]
    /\ UNCHANGED <<tools, startup, state, pc, turns, free, llm_calls, tool_rounds,
                   last_step, requested, next_id, ui, probe>>

\* Lines 55-65, one pass of the for loop: the document is added and the loop
\* sleeps 1.5 s; or add_documents raises, the handler prints that it retries
\* and sleeps 5 s. Either way the for loop goes on to the next document.
add_documents ==
    /\ build.stage = "loop"
    /\ build.doc <= build.documents
    /\ \E ok \in BOOLEAN :
          build' = IF ok
                   THEN [build EXCEPT !.db = @ \cup {build.doc}, !.doc = @ + 1,
                                      !.slept = Append(@, "1.5")]
                   ELSE [build EXCEPT !.doc = @ + 1, !.slept = Append(@, "5")]
    /\ UNCHANGED <<tools, startup, state, pc, turns, free, llm_calls, tool_rounds,
                   last_step, requested, next_id, ui, probe>>

\* Lines 67-72: after the loop the store is written to disk, and an exception
\* of save_local goes to the handler of line 71.
save_local ==
    /\ build.stage = "loop"
    /\ build.doc > build.documents
    /\ \E ok \in BOOLEAN :
          build' = IF ok
                   THEN [build EXCEPT !.stage = "saved",
                                      !.saved = [written |-> TRUE, docs |-> build.db]]
                   ELSE [build EXCEPT !.stage = "critical"]
    /\ UNCHANGED <<tools, startup, state, pc, turns, free, llm_calls, tool_rounds,
                   last_step, requested, next_id, ui, probe>>

BuildInit ==
    /\ InitThreads(NoSessions, NoSessions)
    /\ startup.env = [db |-> TRUE, feedback_db |-> FALSE, product_db |-> FALSE]
    /\ probe = NoProbe
    /\ \E documents \in 0..MaxDocs :
          build = Building("called", documents, 1, {}, <<>>, NotSaved)

BuildNext == from_documents \/ add_documents \/ save_local

BuildSpec == BuildInit /\ [][BuildNext]_vars

-----------------------------------------------------------------------------
\* Steps, as seen from one state to the next.

\* Thread t runs the node "agent" / "tools" in this step.
AgentRuns(t) == pc[t] = "agent" /\ pc'[t] # "agent"
ToolsRun(t) == pc[t] = "tools" /\ pc'[t] # "tools"

\* The model's response in the agent step just taken carries tool calls.
AsksForTools(step) == step.response # <<>> /\ step.response[1].tool_calls # <<>>

-----------------------------------------------------------------------------
\* C1: a Decision Step that starts with the iteration counter at or above the
\* ceiling does not invoke the model, appends the fixed apology, leaves the
\* pending tool requests empty and ends the loop; below the ceiling a response
\* with tool requests sends the loop to the tool step, which hands control
\* back to the Decision Step when it completes.
C1_CeilingShortCircuit ==
    [][\A t \in Threads :
        /\ (AgentRuns(t) /\ state[t].iteration_count >= MAX_ITERATIONS) =>
              /\ llm_calls'[t] = llm_calls[t]
              /\ last_step'[t].chain = "none"
              /\ last_step'[t].response = <<>>
              /\ state'[t].messages = Append(state[t].messages, AIMessage(APOLOGY, <<>>))
              /\ state'[t].tool_calls = <<>>
              /\ pc'[t] = "done"
        /\ (AgentRuns(t) /\ state[t].iteration_count < MAX_ITERATIONS) =>
              /\ llm_calls'[t] = llm_calls[t] + 1
              /\ AsksForTools(last_step'[t]) => pc'[t] = "tools"
        /\ (ToolsRun(t) /\ last_step'[t].outcome = "completed") => pc'[t] = "agent"
    ]_vars

\* A turn has been cut off at the ceiling.
C1_Witness ==
    \E t \in Threads :
        /\ pc[t] = "done"
        /\ last_step[t].outcome = "cutoff"
        /\ state[t].iteration_count = MAX_ITERATIONS
        /\ Last(state[t].messages) = AIMessage(APOLOGY, <<>>)

\* C2: every turn ends, in DONE or in a turn-level error, whatever the model
\* answers, as long as the nodes that can run do run: the model is never
\* invoked more than MAX_ITERATIONS times in a turn, and again and again no
\* thread is in the middle of a turn (each thread submits finitely many turns,
\* so this says that each of them ends).
C2_TurnTerminates ==
    /\ [](\A t \in Threads : llm_calls[t] <= MAX_ITERATIONS)
    /\ []<>(\A t \in Threads : pc[t] \notin {"agent", "tools"})

\* A turn has ended after going round the loop more than once.
C2_Witness ==
    \E t \in Threads : pc[t] = "done" /\ tool_rounds[t] >= 2 /\ last_step[t].outcome = "final"

\* C3: in a turn in which every invocation of the model returned tool requests,
\* the model is invoked at most MAX_ITERATIONS times, and when the turn is
\* done it has been invoked exactly MAX_ITERATIONS times, the tool step has
\* run MAX_ITERATIONS times and the last message is the fixed apology.
C3_StubbornModel ==
    \A t \in Threads :
        (pc[t] # "idle" /\ tool_rounds[t] = llm_calls[t]) =>
            /\ llm_calls[t] <= MAX_ITERATIONS
            /\ state[t].iteration_count = llm_calls[t]
            /\ pc[t] = "done" =>
                  /\ llm_calls[t] = MAX_ITERATIONS
                  /\ state[t].iteration_count = MAX_ITERATIONS
                  /\ last_step[t].outcome = "cutoff"
                  /\ Last(state[t].messages) = AIMessage(APOLOGY, <<>>)

\* A turn in which the model never gave a final answer is done.
C3_Witness ==
    \E t \in Threads :
        /\ pc[t] = "done"
        /\ tool_rounds[t] = llm_calls[t]
        /\ llm_calls[t] = 5
        /\ Last(state[t].messages).content = APOLOGY

\* C4: after a Decision Step the loop goes to the tool step exactly when the
\* response carries tool requests, with or without text, and to DONE exactly
\* when the response is final text or the guard fired; a completed tool step
\* goes back to the Decision Step whether its tools succeeded or failed, and
\* every tool step whose payloads can be normalized completes.
C4_Transitions ==
    [][\A t \in Threads :
        /\ (AgentRuns(t) /\ pc'[t] # "error") =>
              /\ pc'[t] \in {"tools", "done"}
              /\ pc'[t] = "tools" <=> AsksForTools(last_step'[t])
              /\ pc'[t] = "done" <=>
                    \/ last_step'[t].response = <<>>
                    \/ /\ last_step'[t].response # <<>>
                       /\ last_step'[t].response[1].tool_calls = <<>>
        /\ ToolsRun(t) =>
              /\ pc'[t] \in {"agent", "error"}
              /\ last_step'[t].outcome = "completed" <=> pc'[t] = "agent"
              /\ (\A i \in 1..Len(state[t].tool_calls) :
                      \/ state[t].tool_calls[i].name \notin tool_map
                      \/ Sliceable(QueryString(state[t].tool_calls[i].args)))
                  => pc'[t] = "agent"
        /\ (pc[t] = "done" /\ pc'[t] # "done") => pc'[t] = "agent"
    ]_vars

\* A response with both text and tool requests has sent the loop to the
\* tool step.
C4_Witness ==
    \E t \in Threads :
        /\ pc[t] = "tools"
        /\ AsksForTools(last_step[t])
        /\ last_step[t].response[1].content # StrVal("")

-----------------------------------------------------------------------------
\* The requests of a batch that carry a name, each with the outcome of its
\* tool, in request order.
NamedPairs(calls, outs) ==
    SelectSeq([i \in 1..Len(calls) |-> <<calls[i], outs[i]>>],
              LAMBDA p : p[1].name # NoName)

\* C5: one Tool Execution Step appends exactly one Tool Result per request of
\* its batch, the i-th appended result carrying the identifier and the name
\* of the i-th request.
C5_OneResultPerRequest ==
    [][\A t \in Threads :
        ToolsRun(t) =>
            LET calls == state[t].tool_calls
                old == Len(state[t].tool_responses)
                new == state'[t].tool_responses
            IN  /\ Len(new) = old + Len(calls)
                /\ \A i \in 1..Len(calls) :
                      /\ new[old + i].tool_call_id = calls[i].id
                      /\ new[old + i].name = calls[i].name
    ]_vars

\* C6: in a Tool Execution Step the exception of an invoked tool never leaves
\* the loop: the only request at which the loop can stop is one for a
\* registered tool whose payload cannot be normalized to a string; when the
\* step completes, every named request has its own result in request order,
\* a tool that raised has an error result with the exception's description
\* and a tool that returned has its output.
C6_FailureIsolated ==
    [][\A t \in Threads :
        ToolsRun(t) =>
            LET calls == state[t].tool_calls
                outs == last_step'[t].outs
                old == Len(state[t].tool_responses)
                new == state'[t].tool_responses
                pairs == NamedPairs(calls, outs)
            IN  /\ last_step'[t].outcome \in {"raised", "completed"}
                /\ last_step'[t].outcome = "raised" =>
                      /\ last_step'[t].at \in 1..Len(calls)
                      /\ calls[last_step'[t].at].name \in tool_map
                      /\ ~Sliceable(QueryString(calls[last_step'[t].at].args))
                /\ last_step'[t].outcome = "completed" =>
                      /\ Len(new) = old + Len(pairs)
                      /\ \A k \in 1..Len(pairs) :
                            LET c == pairs[k][1]
                                o == pairs[k][2]
                                m == new[old + k]
                            IN  /\ m.tool_call_id = c.id
                                /\ m.name = c.name
                                /\ (c.name \in tool_map /\ ~o.ok) =>
                                      /\ m.content.kind = "Error executing tool"
                                      /\ m.content.detail = <<o.exc>>
                                /\ (c.name \in tool_map /\ o.ok) =>
                                      /\ m.content.kind = "returned"
                                      /\ m.content.detail = response_text(o.out)
    ]_vars

\* A batch whose first tool raised and whose second tool returned has been
\* executed: the error result is followed by the sibling's result.
C6_Witness ==
    \E t \in Threads :
        LET r == state[t].tool_responses
            n == Len(state[t].tool_responses)
        IN  /\ last_step[t].node = "tools"
            /\ last_step[t].outcome = "completed"
            /\ Len(last_step[t].outs) = 2
            /\ ~last_step[t].outs[1].ok
            /\ n >= 2
            /\ r[n - 1].content.kind = "Error executing tool"
            /\ r[n].content.kind = "returned"
            /\ r[n].tool_call_id[2] = r[n - 1].tool_call_id[2] + 1

\* C7: every Decision Step that returns appends exactly one Assistant message
\* to the thread's message sequence.
C7_OneAssistantMessage ==
    [][\A t \in Threads :
        (AgentRuns(t) /\ pc'[t] # "error") =>
            /\ Len(state'[t].messages) = Len(state[t].messages) + 1
            /\ Last(state'[t].messages).type = "ai"
    ]_vars

\* C8: the iteration counter goes up by one in a Decision Step whose response
\* carries tool requests and is left alone by every other Decision Step and
\* by every Tool Execution Step; within a turn it equals the number of
\* tool-requesting Decision Steps of the turn.
C8_IterationCounter ==
    /\ [](\A t \in Threads : pc[t] # "idle" => state[t].iteration_count = tool_rounds[t])
    /\ [][\A t \in Threads :
            /\ (AgentRuns(t) /\ AsksForTools(last_step'[t])) =>
                  state'[t].iteration_count = state[t].iteration_count + 1
            /\ (AgentRuns(t) /\ ~AsksForTools(last_step'[t])) =>
                  state'[t].iteration_count = state[t].iteration_count
            /\ ToolsRun(t) => state'[t].iteration_count = state[t].iteration_count
       ]_vars

\* A turn has ended with a final answer after two tool rounds.
C8_Witness ==
    \E t \in Threads :
        /\ pc[t] = "done"
        /\ last_step[t].outcome = "final"
        /\ state[t].iteration_count = 2
        /\ llm_calls[t] = 3

\* C9: every Tool Result of a thread carries the identifier and the tool name
\* of exactly one tool request emitted earlier by a Decision Step of that
\* thread, and no two Tool Results carry the same identifier.
C9_ResultsMatchRequests ==
    \A t \in Threads :
        LET r == state[t].tool_responses
        IN  /\ \A i \in 1..Len(r) :
                  /\ r[i].type = "tool"
                  /\ Cardinality({q \in requested[t] : q.id = r[i].tool_call_id}) = 1
                  /\ [id |-> r[i].tool_call_id, name |-> r[i].name] \in requested[t]
            /\ \A i, j \in 1..Len(r) : r[i].tool_call_id = r[j].tool_call_id => i = j

\* Results of a failed tool and of an unknown tool are in the state of one
\* thread.
C9_Witness ==
    \E t \in Threads :
        LET kinds == {state[t].tool_responses[i].content.kind :
                        i \in 1..Len(state[t].tool_responses)}
        IN  kinds = {"Error executing tool", "not found"}

\* C10: every Decision Step that invokes the model invokes it with the tools
\* bound, also when the state already holds Tool Results.
C10_AlwaysToolAugmented ==
    [][\A t \in Threads :
        (AgentRuns(t) /\ llm_calls'[t] = llm_calls[t] + 1) =>
            last_step'[t].chain = "llm.bind_tools(tools)"
    ]_vars

-----------------------------------------------------------------------------
\* C11: within one turn the loop can go through two successive tool rounds:
\* when a Tool Execution Step has completed below the ceiling, the Decision
\* Step that follows can answer with a further tool request, which sends the
\* loop to the tool step again.
C11_SecondToolRound ==
    \A t \in Threads :
        (/\ pc[t] = "agent"
         /\ last_step[t].node = "tools"
         /\ last_step[t].outcome = "completed"
         /\ state[t].iteration_count < MAX_ITERATIONS)
            => ENABLED (RunAgent(t) /\ pc'[t] = "tools")

\* C12: normalization of the payload: a string payload is used verbatim; a
\* mapping whose key query holds a string yields exactly that string, whatever
\* the string and the other entries; a mapping with no string value yields
\* the stringified mapping.
C12_NormalizationCases ==
    probe.stage \in {"normalized", "TypeError", "recorded"} =>
        LET args == probe.tool_call.args
            q == probe.query_string
        IN  /\ args.kind = "str" => q = StrVal(args.s)
            /\ (args.kind = "dict" /\ Get(args.items, "query").t = "str") =>
                  q = Get(args.items, "query")
            /\ (args.kind = "dict" /\ \A i \in 1..Len(args.items) : args.items[i][2].t # "str") =>
                  q = Stringified(args)

\* C13: whatever the payload of a request for a registered tool, its
\* normalization yields a string and raises nothing, so that no Tool Execution
\* Step is left by an exception and no turn is aborted in the tool step.
C13_NoPayloadAborts ==
    \A t \in Threads :
        last_step[t].node = "tools" =>
            /\ last_step[t].outcome = "completed"
            /\ pc[t] # "error"

\* C14: the text recorded for a successful invocation is the first
\* TRUNCATE_AT characters of the tool's output followed by the truncation
\* marker when the output is longer than TRUNCATE_AT, and the output itself
\* when it has at most TRUNCATE_AT characters.
C14_OutputBounded ==
    (probe.stage = "recorded" /\ probe.outcome.ok) =>
        LET out == probe.outcome.out
            recorded == probe.result.content.detail
        IN  /\ probe.result.content.kind = "returned"
            /\ Len(out) > 1000 =>
                  /\ Len(recorded) = 1000 + Len(TRUNCATED)
                  /\ \A i \in 1..1000 : recorded[i] = out[i]
                  /\ \A i \in 1..Len(TRUNCATED) : recorded[1000 + i] = TRUNCATED[i]
            /\ Len(out) <= 1000 => recorded = out

\* An output of one character more than the limit has been recorded, cut.
C14_Witness ==
    /\ probe.stage = "recorded"
    /\ probe.outcome.ok
    /\ Len(probe.outcome.out) = 1001
    /\ Len(probe.result.content.detail) = 1001
    /\ probe.result.content.detail[1001] = "... (truncated)"

\* C15: a request that names a tool absent from the registry never aborts
\* the loop: the tool step is never left by an exception at such a request, a
\* batch that holds only such requests always completes, and a step that
\* completes has appended for each of them, at its place among the results,
\* an error result with the request's identifier that names the unknown tool
\* and lists the registered tools, has gone on to the requests after it and
\* hands control back to the Decision Step.
C15_UnknownToolReported ==
    [][\A t \in Threads :
        ToolsRun(t) =>
            LET calls == state[t].tool_calls
                step == last_step'[t]
                old == Len(state[t].tool_responses)
                new == state'[t].tool_responses
                pairs == NamedPairs(calls, step.outs)
            IN  /\ step.outcome = "raised" => calls[step.at].name \in tool_map
                /\ (\A i \in 1..Len(calls) : calls[i].name \notin tool_map) =>
                      step.outcome = "completed"
                /\ step.outcome = "completed" =>
                      /\ pc'[t] = "agent"
                      /\ Len(new) = old + Len(pairs)
                      /\ \A k \in 1..Len(pairs) :
                            pairs[k][1].name \notin tool_map =>
                                /\ new[old + k].tool_call_id = pairs[k][1].id
                                /\ new[old + k].name = pairs[k][1].name
                                /\ new[old + k].content =
                                      [kind |-> "not found", tool |-> pairs[k][1].name,
                                       detail |-> tools]
    ]_vars

\* A batch of a request for an unknown tool followed by a request for a
\* registered tool has been executed, and the loop is back at the Decision
\* Step with both results.
C15_Witness ==
    \E t \in Threads :
        LET r == state[t].tool_responses
            n == Len(state[t].tool_responses)
        IN  /\ pc[t] = "agent"
            /\ last_step[t].node = "tools"
            /\ last_step[t].outcome = "completed"
            /\ n >= 2
            /\ r[n - 1].name = "web_search"
            /\ r[n - 1].content.kind = "not found"
            /\ r[n - 1].content.detail = tools
            /\ r[n].content.kind = "returned"
            /\ r[n].tool_call_id[2] = r[n - 1].tool_call_id[2] + 1

\* C16: when the model call of a Decision Step raises, the turn is aborted:
\* the run is left with the thread's state as it was (no Assistant message is
\* made up), the session history gets no assistant entry and no answer is
\* shown, the failure is shown to the user, and the thread's next step can
\* only be the first Decision Step of a new turn.
C16_ModelFailureAbortsTurn ==
    [][\A t \in Threads :
        /\ (AgentRuns(t) /\ last_step'[t].outcome = "llm_error") =>
              /\ pc'[t] = "error"
              /\ state'[t] = state[t]
              /\ Last(state'[t].messages).type = "human"
              /\ ui'[t].messages = ui[t].messages
              /\ Last(ui'[t].messages).role = "user"
              /\ ui'[t].final_answer = ""
              /\ ui'[t].response = ""
              /\ ui'[t].error # ""
        /\ (pc[t] = "error" /\ pc'[t] # "error") =>
              /\ pc'[t] = "agent"
              /\ turns'[t] = turns[t] - 1
              /\ llm_calls'[t] = 0
              /\ last_step'[t].node = "submit"
    ]_vars

\* The model call of the Decision Step after a tool round has raised.
C16_Witness ==
    \E t \in Threads :
        /\ pc[t] = "error"
        /\ last_step[t].outcome = "llm_error"
        /\ llm_calls[t] = 2
        /\ state[t].tool_responses # <<>>
        /\ ui[t].error # ""

-----------------------------------------------------------------------------
\* The tool sources whose own construction succeeds in the environment env.
Constructs(env) ==
    (IF env.db THEN {"sql"} ELSE {})
    \cup (IF "tool" \in DOMAIN create_feedback_rag_tool(env) THEN {"feedback"} ELSE {})
    \cup (IF "tool" \in DOMAIN create_product_rag_tool(env) THEN {"product"} ELSE {})

\* C17: the import fails with the fatal error exactly when no tool could be
\* registered, that is when the construction of none of the tool sources
\* succeeds; with at least one source that constructs, the import completes
\* and the registry is not empty.
C17_StartupFailsIffNoTool ==
    /\ startup.error = "RuntimeError" <=> Constructs(startup.env) = {}
    /\ Constructs(startup.env) # {} => (startup.error = "none" /\ tools # <<>>)

\* C18: a source that fails to construct takes only its own tools out of the
\* registry: the tools of every source whose own construction succeeds are
\* registered, whatever happened to the other sources.
C18_SourcesIndependent ==
    /\ "sql" \in Constructs(startup.env) =>
          {"sql_db_list_tables", "sql_db_schema", "sql_db_query"} \subseteq tool_map
    /\ "feedback" \in Constructs(startup.env) => "customer_feedback_search" \in tool_map
    /\ "product" \in Constructs(startup.env) => "product_details_search" \in tool_map

-----------------------------------------------------------------------------
\* x + y keeps x as the beginning of the result.
IsPrefix(x, xy) == Len(x) <= Len(xy) /\ SubSeq(xy, 1, Len(x)) = x

\* C19: the message sequence of a thread only grows at its end: every step,
\* of whatever turn, leaves the messages it found unchanged and in place at
\* the beginning of the sequence, a step that starts a turn adds exactly the
\* user's message after them, and no step adds more than one message.
C19_MessagesAppendOnly ==
    [][\A t \in Threads :
        /\ IsPrefix(state[t].messages, state'[t].messages)
        /\ Len(state'[t].messages) <= Len(state[t].messages) + 1
        /\ (pc'[t] = "agent" /\ pc[t] \in {"idle", "done", "error"}) =>
              /\ Len(state'[t].messages) = Len(state[t].messages) + 1
              /\ Last(state'[t].messages).type = "human"
    ]_vars

\* The second turn of a thread has been answered: its messages follow the
\* messages of the first turn.
C19_Witness ==
    \E t \in Threads :
        /\ pc[t] = "done"
        /\ Len(state[t].messages) = 4
        /\ state[t].messages[1].type = "human"
        /\ state[t].messages[2].type = "ai"
        /\ state[t].messages[3].type = "human"
        /\ state[t].messages[4].type = "ai"

-----------------------------------------------------------------------------
\* Everything kept for thread t: its checkpoint, its run and its session.
Local(t) ==
    <<state[t], pc[t], turns[t], free[t], llm_calls[t], tool_rounds[t], last_step[t],
      requested[t], next_id[t], ui[t]>>

\* C20: turns running at once on different thread identifiers do not
\* interfere, whatever the order of their steps: a step of one thread's turn
\* changes nothing that is kept for another thread; the state it leaves is
\* the one its own node computes from the thread's own state and the
\* response or the tool outcomes of that very step, as in a run on its own;
\* and the tool results a thread holds all answer requests of that thread.
C20_ThreadsIndependent ==
    /\ [](\A t \in Threads :
            \A i \in 1..Len(state[t].tool_responses) :
                /\ state[t].tool_responses[i].tool_call_id[1] = t
                /\ [id |-> state[t].tool_responses[i].tool_call_id,
                    name |-> state[t].tool_responses[i].name] \in requested[t])
    /\ [][\A t \in Threads :
            pc'[t] # pc[t] =>
                LET step == last_step'[t]
                IN  /\ \A u \in Threads \ {t} : Local(u)' = Local(u)
                    /\ step.node = "submit" =>
                          \E prompt \in Prompts :
                              state'[t] = Merge(state[t], graph_input(prompt))
                    /\ (step.node = "agent" /\ step.outcome = "cutoff") =>
                          state'[t] = Merge(state[t], ForcedAnswer(state[t]))
                    /\ (step.node = "agent" /\ step.outcome \in {"final", "tool_request"}) =>
                          /\ step.chain = agent_chain(state[t])
                          /\ state'[t] = Merge(state[t], agent_node(state[t], step.response[1]))
                    /\ (step.node = "tools" /\ step.outcome = "completed") =>
                          state'[t] =
                              Merge(state[t], tool_executor_node(state[t], step.outs))
                    /\ step.outcome \in {"llm_error", "raised"} => state'[t] = state[t]
       ]_vars

\* Two turns are under way at once: one thread is back at the Decision Step
\* with a tool result while the other is about to execute its own request.
C20_Witness ==
    /\ pc["t1"] = "agent"
    /\ state["t1"].tool_responses # <<>>
    /\ pc["t2"] = "tools"
    /\ state["t2"].tool_responses = <<>>
    /\ state["t2"].tool_calls # <<>>

-----------------------------------------------------------------------------
\* C21: for every mapping payload the normalized string is the result of the
\* policy applied in order: the value of the first key, in the priority order
\* query, input, question, arg1, that is present with a string value;
\* otherwise the first string value of the mapping in iteration order;
\* otherwise the stringified mapping.
C21_PolicyInOrder ==
    (/\ probe.stage \in {"normalized", "TypeError", "recorded"}
     /\ probe.tool_call.args.kind = "dict") =>
        LET args == probe.tool_call.args
            at(key) == Get(args.items, key)
        IN  probe.query_string =
                IF at("query").t = "str" THEN at("query")
                ELSE IF at("input").t = "str" THEN at("input")
                ELSE IF at("question").t = "str" THEN at("question")
                ELSE IF at("arg1").t = "str" THEN at("arg1")
                ELSE IF FirstStr(args.items, 1).t = "str" THEN FirstStr(args.items, 1)
                ELSE Stringified(args)

-----------------------------------------------------------------------------
\* A turn of thread t is submitted in this step.
TurnStarts(t) == pc[t] \in {"idle", "done", "error"} /\ pc'[t] = "agent"

\* C22: the sequence handed to the model is in chronological order across
\* the turns of a thread. The order of a Tool Result and a user message in
\* it is settled when the later of the two is added, so: the results a tool
\* step adds come after the user message of the turn under way, which is
\* the last user message of the sequence; and when a turn is submitted, its
\* user message comes after every Tool Result of the earlier turns.
C22_ChronologicalHistory ==
    [][\A t \in Threads :
        LET h == chat_history(state'[t])
            humans == {i \in 1..Len(h) : h[i].type = "human"}
            results == {j \in 1..Len(h) : h[j].type = "tool"}
        IN  /\ (ToolsRun(t) /\ last_step'[t].outcome = "completed") =>
                  \A j \in results :
                      j > Len(chat_history(state[t])) => \A i \in humans : i < j
            /\ TurnStarts(t) =>
                  \A j \in results : \E i \in humans : j < i
    ]_vars

-----------------------------------------------------------------------------
\* C23: a Tool Execution Step that completes is one state update: it empties
\* the pending tool requests and appends all the results of its batch
\* together, and a step left by an exception changes nothing. So a Decision
\* Step that follows a tool step finds the pending set empty, and no Decision
\* Step finds a pending request next to a result recorded for it (a batch
\* partly recorded or not cleared).
C23_BatchAtomic ==
    /\ [](\A t \in Threads :
            pc[t] = "agent" =>
                /\ last_step[t].node = "tools" =>
                      (last_step[t].outcome = "completed" /\ state[t].tool_calls = <<>>)
                /\ \A i \in 1..Len(state[t].tool_calls) :
                      \A j \in 1..Len(state[t].tool_responses) :
                          state[t].tool_responses[j].tool_call_id # state[t].tool_calls[i].id)
    /\ [][\A t \in Threads :
            ToolsRun(t) =>
                LET batch == ExecuteFrom(state[t].tool_calls, last_step'[t].outs, 1, <<>>)
                IN  IF last_step'[t].outcome = "completed"
                    THEN /\ ~batch.raised
                         /\ state'[t].tool_calls = <<>>
                         /\ state'[t].tool_responses =
                                state[t].tool_responses \o batch.new_tool_responses
                         /\ pc'[t] = "agent"
                    ELSE /\ state'[t] = state[t]
                         /\ pc'[t] = "error"
       ]_vars

\* A batch of two requests has been executed: the Decision Step that follows
\* finds both results and no pending request.
C23_Witness ==
    \E t \in Threads :
        /\ pc[t] = "agent"
        /\ last_step[t].node = "tools"
        /\ last_step[t].outcome = "completed"
        /\ Len(last_step[t].outs) = 2
        /\ Len(state[t].tool_responses) = 2
        /\ state[t].tool_calls = <<>>

-----------------------------------------------------------------------------
\* The tool names of a response's tool calls.
Names(tool_calls) == [i \in 1..Len(tool_calls) |-> tool_calls[i].name]

\* C24: in the streaming handler, a Decision Step of the turn that requests
\* tools makes the front-end record and show the names of the requested
\* tools, and the Tool Execution Step that completes after it makes the
\* front-end show that the tools have finished.
C24_StreamingEvents ==
    [][\A t \in Threads :
        /\ (AgentRuns(t) /\ AsksForTools(last_step'[t])) =>
              /\ ui'[t].tool_calls_made =
                    ui[t].tool_calls_made \o Names(last_step'[t].response[1].tool_calls)
              /\ ui'[t].thinking = "Calling"
        /\ (ToolsRun(t) /\ last_step'[t].outcome = "completed") =>
              ui'[t].thinking = "Tools finished. Generating answer..."
    ]_vars

-----------------------------------------------------------------------------
\* C25: every turn submitted through the chat handler starts with the
\* iteration counter at 0, whatever the counter was when the thread's
\* previous turn ended, so that its first Decision Step finds the counter at
\* 0 and is never cut off by the guard.
C25_CounterResetPerTurn ==
    /\ [](\A t \in Threads :
            (pc[t] = "agent" /\ last_step[t].node = "submit") =>
                /\ state[t].iteration_count = 0
                /\ ~GuardFires(state[t]))
    /\ [][\A t \in Threads :
            /\ TurnStarts(t) => state'[t].iteration_count = 0
            /\ (AgentRuns(t) /\ last_step[t].node = "submit") =>
                  last_step'[t].outcome # "cutoff"
       ]_vars

\* A turn has been submitted on a thread whose previous turn ended at the
\* ceiling with the apology: it starts at 0.
C25_Witness ==
    \E t \in Threads :
        /\ pc[t] = "agent"
        /\ last_step[t].node = "submit"
        /\ Len(state[t].messages) = 3
        /\ state[t].messages[2] = AIMessage(APOLOGY, <<>>)
        /\ state[t].iteration_count = 0

-----------------------------------------------------------------------------
\* C26: whenever a turn has reached DONE, the text shown as the answer and
\* recorded as the assistant entry of the session history is exactly the text
\* content of the Assistant message that the last Decision Step of the turn
\* appended, whatever that content is (the apology and the empty text
\* included).
C26_AnswerIsFinalText ==
    \A t \in Threads :
        pc[t] = "done" =>
            LET final == Last(state[t].messages)
                text == extract_text_content(final.content)
            IN  /\ final.type = "ai"
                /\ ui[t].response = text
                /\ Last(ui[t].messages) = [role |-> "assistant", content |-> text]

-----------------------------------------------------------------------------
-----------------------------------------------------------------------------
-----------------------------------------------------------------------------
-----------------------------------------------------------------------------
\* C30: when adding a document to the store fails, build_vector_store waits
\* and tries that same document again, so that whenever the build completes
\* and saves the store, the saved store holds every input document.
C30_RetryUntilAdded ==
    /\ [](build.stage = "saved" =>
            /\ build.saved.written
            /\ build.saved.docs = 1..build.documents)
    /\ [][(/\ build.stage = "loop"
           /\ build'.stage = "loop"
           /\ build'.db = build.db) =>
              /\ build'.doc = build.doc
              /\ Len(build'.slept) = Len(build.slept) + 1
       ]_vars

====
